---- MODULE Spec2Model ----
(***************************************************************************)
(* State-machine model of contracts/WordGameFHE.sol and of the game flow    *)
(* of frontend/web/src/App.tsx.                                            *)
(*                                                                         *)
(* Every public function of the contract is one atomic action.  A call     *)
(* that reverts leaves every variable unchanged; the revert reason of a    *)
(* call is given by the ...Result operators.  Ciphertexts are modelled by  *)
(* the cleartext they encrypt, so that FHE.eq / FHE.and can be computed;   *)
(* no action other than the FHE operators reads them.                      *)
(*                                                                         *)
(* The frontend does not call WordGameFHE: it keeps its records in the     *)
(* key/value storage (getData / setData) of the contract it is connected   *)
(* to.  App.submitGuess is an async function; every await of a contract    *)
(* call is a point where the flow of another client can run, so the        *)
(* function is one action per await.                                       *)
(***************************************************************************)
EXTENDS Integers, Sequences, FiniteSets, TLC

\* ---------------------------------------------------------------- bounds
\* cap on the number of steps that grow the state: stored guesses, decryption
\* requests, scoreboard entries and days elapsed, taken together
MaxOps == 5
\* cap on the number of game records the frontend clients store
MaxRecords == 4

\* ------------------------------------------------------ program constants
OneDay == 86400      \* "1 days", in seconds
WordLen == 5         \* euint32[5]

Players == {"A", "B"}
ZeroAddr == "0x0"                       \* address(0), key of unset entries
Addresses == Players \cup {ZeroAddr}

\* a word is the sequence of its WordLen letters: letters[i] of the source
\* is the element i + 1 of the sequence
Alphabet == {0, 1}
AllWords == [1 .. WordLen -> Alphabet]
ZeroWord == [i \in 1 .. WordLen |-> 0]
\* the words the main specification draws its inputs from: two words that
\* differ only in the last letter
Words == {ZeroWord, [i \in 1 .. WordLen |-> IF i = WordLen THEN 1 ELSE 0]}

\* the keys of the mappings that the bounded runs can touch
GuessIds == 0 .. (MaxOps + 1)
RequestIds == 0 .. (MaxOps + 1)
Days == 0 .. (MaxOps + 1)

VARIABLES
    now,               \* block.timestamp
    currentAnswer,     \* EncryptedAnswer
    guesses,           \* mapping(uint256 => EncryptedGuess)
    guessCount,        \* uint256
    playerStats,       \* mapping(address => PlayerStats)
    dailyWinners,      \* mapping(uint256 => address[])
    requestToGuessId,  \* mapping(uint256 => uint256)
    decryptionRequests,\* the flags sent to the decryption oracle, by requestId
    emitted,           \* the events of the last transaction that succeeded
    contractData,      \* App.tsx: the storage behind contract.getData / setData
    app                \* App.tsx: per client, the React state and the locals
                       \* of its running submitGuess

appVars == <<contractData, app>>

vars == <<now, currentAnswer, guesses, guessCount, playerStats, dailyWinners,
          requestToGuessId, decryptionRequests, emitted, contractData, app>>

\* ---------------------------------------------------------------- helpers
EmptyGuess == [letters |-> ZeroWord, timestamp |-> 0, player |-> ZeroAddr]
EmptyStats == [wins |-> 0, attempts |-> 0, lastPlayedDay |-> 0]

\* block.timestamp / 1 days
DayOf(t) == t \div OneDay

\* A mapping is the function of the keys written so far; every other key
\* reads as the zero value of the value type.
GuessAt(id) == IF id \in DOMAIN guesses THEN guesses[id] ELSE EmptyGuess
WinnersAt(day) == IF day \in DOMAIN dailyWinners THEN dailyWinners[day] ELSE <<>>
\* seeded fault: one slot holds the guessId of the request issued last
GuessIdOf_Latest(requestId) ==
    IF decryptionRequests = <<>>
    THEN 0
    ELSE requestToGuessId[Len(decryptionRequests)]

GuessIdOf(requestId) ==
    IF requestId \in DOMAIN requestToGuessId THEN requestToGuessId[requestId]
    ELSE 0

\* ---------------------------------------------- frontend: constants, Init
\* one browser session per wallet account
Clients == Players
\* dailyChallenge.maxAttempts
maxAttempts == 6

\* the storage before any setData: getData returns empty bytes for every key
EmptyData == [game_keys |-> <<>>, games |-> <<>>, leaderboard |-> <<>>]

\* a mounted App with no submitGuess running; recordId, isCorrect, keys and
\* leaderboardData are the locals of submitGuess
IdleClient ==
    [pc |-> "idle", playing |-> FALSE, attempts |-> 0, records |-> <<>>,
     recordId |-> 0, isCorrect |-> FALSE, keys |-> <<>>,
     leaderboardData |-> <<>>]

InitApp ==
    /\ contractData = EmptyData
    /\ app = [c \in Clients |-> IdleClient]

\* ------------------------------------------------------------------- Init
\* The storage after deployment: every field has its zero value.  The chain's
\* clock is past the first day of the epoch, so block.timestamp / 1 days >= 1.
Init ==
    /\ now = OneDay
    /\ currentAnswer = [letters |-> ZeroWord, day |-> 0]
    /\ guesses = <<>>
    /\ guessCount = 0
    /\ playerStats = [a \in Addresses |-> EmptyStats]
    /\ dailyWinners = <<>>
    /\ requestToGuessId = <<>>
    /\ decryptionRequests = <<>>
    /\ emitted = <<>>
    /\ InitApp

\* --------------------------------------------------------- the step budget
RECURSIVE SumLen(_)
SumLen(d) == IF d < 0 THEN 0 ELSE Len(WinnersAt(d)) + SumLen(d - 1)

\* the number of entries of all the scoreboard lists
TotalWinners == SumLen(MaxOps + 1)

Ops == guessCount + Len(decryptionRequests) + TotalWinners + (DayOf(now) - 1)

\* ---------------------------------------------------------------- actions
\* the block timestamp advances between transactions
TickSteps == {OneDay \div 2, OneDay}

Tick ==
    \E d \in TickSteps :
        /\ DayOf(now + d) = DayOf(now) \/ Ops < MaxOps
        /\ now' = now + d
        /\ UNCHANGED <<appVars, currentAnswer, guesses, guessCount, playerStats,
                       dailyWinners, requestToGuessId, decryptionRequests,
                       emitted>>

\* seeded fault: the day of the answer is a counter, not the day of the clock
setDailyAnswer_CountedDay(encryptedLetters) ==
    /\ currentAnswer' = [letters |-> encryptedLetters,
                         day |-> currentAnswer.day + 1]
    /\ emitted' = << <<"NewDailyAnswer", currentAnswer.day + 1>> >>
    /\ UNCHANGED <<appVars, now, guesses, guessCount, playerStats, dailyWinners,
                   requestToGuessId, decryptionRequests>>

setDailyAnswer(encryptedLetters) ==
    /\ currentAnswer' = [letters |-> encryptedLetters, day |-> DayOf(now)]
    /\ emitted' = << <<"NewDailyAnswer", DayOf(now)>> >>
    /\ UNCHANGED <<appVars, now, guesses, guessCount, playerStats, dailyWinners,
                   requestToGuessId, decryptionRequests>>

SetDailyAnswer ==
    \E w \in Words : setDailyAnswer(w)

\* modifier answerExists
AnswerExists == currentAnswer.day # 0

\* seeded fault: the comparison lets the day of the last submission through
NotPlayedYet_LessOrEqual(stats, currentDay) == stats.lastPlayedDay <= currentDay

\* require(playerStats[msg.sender].lastPlayedDay < currentDay, ...)
NotPlayedYet(stats, currentDay) == stats.lastPlayedDay < currentDay

\* seeded fault: the day is compared before the modifier answerExists runs
SubmitGuessResult_DayFirst(sender) ==
    IF DayOf(now) # currentAnswer.day THEN "Not current day"
    ELSE IF ~AnswerExists THEN "Answer not set"
    ELSE IF ~NotPlayedYet(playerStats[sender], DayOf(now))
    THEN "Already played today"
    ELSE "ok"

\* the outcome of submitGuess called by sender: "ok" or the revert reason
SubmitGuessResult(sender) ==
    IF ~AnswerExists THEN "Answer not set"
    ELSE IF DayOf(now) # currentAnswer.day THEN "Not current day"
    ELSE IF ~NotPlayedYet(playerStats[sender], DayOf(now))
    THEN "Already played today"
    ELSE "ok"

\* seeded fault: the attempt is counted, the day of the submission is not recorded
PlayedStats_NoDay(stats, currentDay) == [stats EXCEPT !.attempts = @ + 1]

\* seeded fault: the day recorded is the next day, the first the player may
\* play again
PlayedStats_NextDay(stats, currentDay) ==
    [stats EXCEPT !.lastPlayedDay = currentDay + 1, !.attempts = @ + 1]

\* playerStats[msg.sender] after a submission
PlayedStats(stats, currentDay) ==
    [stats EXCEPT !.lastPlayedDay = currentDay, !.attempts = @ + 1]

\* seeded fault: the guess is stored before the counter is incremented
submitGuess_StoreBeforeIncrement(sender, encryptedLetters) ==
    LET currentDay == DayOf(now) IN
    IF SubmitGuessResult(sender) # "ok"
    THEN UNCHANGED vars
    ELSE
        /\ guessCount' = guessCount + 1
        /\ guesses' = (guessCount :>
                          [letters |-> encryptedLetters,
                           timestamp |-> now,
                           player |-> sender]) @@ guesses
        /\ playerStats' = [playerStats EXCEPT
                              ![sender] = PlayedStats(@, currentDay)]
        /\ emitted' = << <<"GuessSubmitted", guessCount, sender>> >>
        /\ UNCHANGED <<appVars, now, currentAnswer, dailyWinners, requestToGuessId,
                       decryptionRequests>>

submitGuess(sender, encryptedLetters) ==
    LET currentDay == DayOf(now) IN
    IF SubmitGuessResult(sender) # "ok"
    THEN UNCHANGED vars
    ELSE
        /\ guessCount' = guessCount + 1
        /\ guesses' = ((guessCount + 1) :>
                          [letters |-> encryptedLetters,
                           timestamp |-> now,
                           player |-> sender]) @@ guesses
        /\ playerStats' = [playerStats EXCEPT
                              ![sender] = PlayedStats(@, currentDay)]
        /\ emitted' = << <<"GuessSubmitted", guessCount + 1, sender>> >>
        /\ UNCHANGED <<appVars, now, currentAnswer, dailyWinners, requestToGuessId,
                       decryptionRequests>>

SubmitGuess ==
    /\ Ops < MaxOps
    /\ \E sender \in Players, w \in Words : submitGuess(sender, w)

\* FHE operators, on the cleartexts the ciphertexts stand for
FHE_eq(a, b) == a = b
FHE_and(a, b) == a /\ b

\* the loop of evaluateGuess: isCorrect after the iterations i .. WordLen-1
RECURSIVE EvalLoop(_, _, _, _)
EvalLoop(i, isCorrect, guessLetters, answerLetters) ==
    IF i < WordLen
    THEN EvalLoop(i + 1,
                  FHE_and(isCorrect,
                          FHE_eq(guessLetters[i + 1], answerLetters[i + 1])),
                  guessLetters, answerLetters)
    ELSE isCorrect

\* seeded fault: the loop starts at the second letter
IsCorrectFlag_SkipFirst(guessLetters, answerLetters) ==
    EvalLoop(1, TRUE, guessLetters, answerLetters)

\* seeded fault: the loop compares the guess with itself
IsCorrectFlag_SelfCompare(guessLetters, answerLetters) ==
    EvalLoop(0, TRUE, guessLetters, guessLetters)

IsCorrectFlag(guessLetters, answerLetters) ==
    EvalLoop(0, TRUE, guessLetters, answerLetters)

\* seeded fault: the check only asks that the guess has some owner
IsGuessOwner_AnyOwner(guess, sender) == guess.player # ZeroAddr

\* require(guess.player == msg.sender, ...)
IsGuessOwner(guess, sender) == guess.player = sender

\* the outcome of evaluateGuess(guessId) called by sender
EvaluateGuessResult(sender, guessId) ==
    IF ~AnswerExists THEN "Answer not set"
    ELSE IF ~IsGuessOwner(GuessAt(guessId), sender) THEN "Not your guess"
    ELSE IF GuessAt(guessId).timestamp = 0 THEN "Invalid guess"
    ELSE "ok"

\* FHE.requestDecryption: the id the oracle gives the next request
NextRequestId == Len(decryptionRequests) + 1

\* seeded fault: a successful evaluation is also counted as an attempt
evaluateGuess_CountsAttempt(sender, guessId) ==
    LET guess == GuessAt(guessId) IN
    IF EvaluateGuessResult(sender, guessId) # "ok"
    THEN UNCHANGED vars
    ELSE
        LET isCorrect == IsCorrectFlag(guess.letters, currentAnswer.letters)
            reqId == NextRequestId
        IN  /\ decryptionRequests' = Append(decryptionRequests, isCorrect)
            /\ requestToGuessId' = (reqId :> guessId) @@ requestToGuessId
            /\ playerStats' = [playerStats EXCEPT ![sender].attempts = @ + 1]
            /\ emitted' = <<>>
            /\ UNCHANGED <<appVars, now, currentAnswer, guesses, guessCount,
                           dailyWinners>>

\* seeded fault: the request is recorded under the guessId, not the requestId
evaluateGuess_KeyedByGuess(sender, guessId) ==
    LET guess == GuessAt(guessId) IN
    IF EvaluateGuessResult(sender, guessId) # "ok"
    THEN UNCHANGED vars
    ELSE
        LET isCorrect == IsCorrectFlag(guess.letters, currentAnswer.letters)
            reqId == NextRequestId
        IN  /\ decryptionRequests' = Append(decryptionRequests, isCorrect)
            /\ requestToGuessId' = (guessId :> guessId) @@ requestToGuessId
            /\ emitted' = <<>>
            /\ UNCHANGED <<appVars, now, currentAnswer, guesses, guessCount,
                           playerStats, dailyWinners>>

evaluateGuess(sender, guessId) ==
    LET guess == GuessAt(guessId) IN
    IF EvaluateGuessResult(sender, guessId) # "ok"
    THEN UNCHANGED vars
    ELSE
        LET isCorrect == IsCorrectFlag(guess.letters, currentAnswer.letters)
            reqId == NextRequestId
        IN  /\ decryptionRequests' = Append(decryptionRequests, isCorrect)
            /\ requestToGuessId' = (reqId :> guessId) @@ requestToGuessId
            /\ emitted' = <<>>
            /\ UNCHANGED <<appVars, now, currentAnswer, guesses, guessCount,
                           playerStats, dailyWinners>>

\* the guessIds a caller tries: none, the stored ones, the next free one
GuessInputs == 0 .. (guessCount + 1)

EvaluateGuess ==
    /\ Ops < MaxOps
    /\ \E sender \in Players, guessId \in GuessInputs :
           evaluateGuess(sender, guessId)

\* cleartexts: the ABI words of the payload; abi.decode(cleartexts, (bool))
\* reverts on a word that is neither 0 nor 1
Payloads == {<<0>>, <<1>>, <<2>>}
AbiDecodable(cleartexts) == Len(cleartexts) >= 1 /\ cleartexts[1] \in {0, 1}
\* seeded fault: every nonzero-length payload decodes to true
AbiDecodeBool_AlwaysTrue(cleartexts) == Len(cleartexts) >= 1

AbiDecodeBool(cleartexts) == cleartexts[1] = 1

\* seeded fault: the outcome of the verification is ignored
CheckSignatures_Ignored(requestId, cleartexts, proofValid) == TRUE

\* FHE.checkSignatures(requestId, cleartexts, proof) passes: the library is
\* an external collaborator, proofValid is the outcome of its verification
CheckSignatures(requestId, cleartexts, proofValid) == proofValid

\* the outcome of handleEvaluationResult(requestId, cleartexts, proof)
HandleEvaluationResultResult(requestId, cleartexts, proofValid) ==
    IF ~CheckSignatures(requestId, cleartexts, proofValid)
    THEN "Invalid signatures"
    ELSE IF ~AbiDecodable(cleartexts) THEN "abi.decode"
    ELSE "ok"

\* seeded fault: the winner is pushed to the list of the wall-clock day
WinnerDay_WallClock == DayOf(now)

\* the key of dailyWinners a winner is pushed to
WinnerDay == currentAnswer.day

\* playerStats[guess.player].wins++
WonStats(stats) == [stats EXCEPT !.wins = @ + 1]

\* seeded fault: the event is emitted inside the if, for a correct guess only
handleEvaluationResult_EmitOnWin(requestId, cleartexts, proofValid) ==
    LET guessId == GuessIdOf(requestId)
        guess == GuessAt(guessId)
    IN
    IF HandleEvaluationResultResult(requestId, cleartexts, proofValid) # "ok"
    THEN UNCHANGED vars
    ELSE
        LET isCorrect == AbiDecodeBool(cleartexts) IN
        /\ IF isCorrect
           THEN /\ playerStats' = [playerStats EXCEPT
                                       ![guess.player] = WonStats(@)]
                /\ dailyWinners' =
                       (WinnerDay :> Append(WinnersAt(WinnerDay), guess.player))
                           @@ dailyWinners
                /\ emitted' = << <<"GuessEvaluated", guessId, guess.player,
                                   isCorrect>> >>
           ELSE /\ UNCHANGED <<playerStats, dailyWinners>>
                /\ emitted' = <<>>
        /\ UNCHANGED <<appVars, now, currentAnswer, guesses, guessCount,
                       requestToGuessId, decryptionRequests>>

\* seeded fault: the winners list of the day is overwritten, not pushed to
handleEvaluationResult_Overwrite(requestId, cleartexts, proofValid) ==
    LET guessId == GuessIdOf(requestId)
        guess == GuessAt(guessId)
    IN
    IF HandleEvaluationResultResult(requestId, cleartexts, proofValid) # "ok"
    THEN UNCHANGED vars
    ELSE
        LET isCorrect == AbiDecodeBool(cleartexts) IN
        /\ IF isCorrect
           THEN /\ playerStats' = [playerStats EXCEPT
                                       ![guess.player] = WonStats(@)]
                /\ dailyWinners' =
                       (WinnerDay :> <<guess.player>>) @@ dailyWinners
           ELSE UNCHANGED <<playerStats, dailyWinners>>
        /\ emitted' = << <<"GuessEvaluated", guessId, guess.player, isCorrect>> >>
        /\ UNCHANGED <<appVars, now, currentAnswer, guesses, guessCount,
                       requestToGuessId, decryptionRequests>>

\* seeded fault: the guess is deleted once its request is resolved
handleEvaluationResult_DeletesGuess(requestId, cleartexts, proofValid) ==
    LET guessId == GuessIdOf(requestId)
        guess == GuessAt(guessId)
    IN
    IF HandleEvaluationResultResult(requestId, cleartexts, proofValid) # "ok"
    THEN UNCHANGED vars
    ELSE
        LET isCorrect == AbiDecodeBool(cleartexts) IN
        /\ IF isCorrect
           THEN /\ playerStats' = [playerStats EXCEPT
                                       ![guess.player] = WonStats(@)]
                /\ dailyWinners' =
                       (WinnerDay :> Append(WinnersAt(WinnerDay), guess.player))
                           @@ dailyWinners
           ELSE UNCHANGED <<playerStats, dailyWinners>>
        /\ guesses' = [g \in DOMAIN guesses \ {guessId} |-> guesses[g]]
        /\ emitted' = << <<"GuessEvaluated", guessId, guess.player, isCorrect>> >>
        /\ UNCHANGED <<appVars, now, currentAnswer, guessCount,
                       requestToGuessId, decryptionRequests>>

handleEvaluationResult(requestId, cleartexts, proofValid) ==
    LET guessId == GuessIdOf(requestId)
        guess == GuessAt(guessId)
    IN
    IF HandleEvaluationResultResult(requestId, cleartexts, proofValid) # "ok"
    THEN UNCHANGED vars
    ELSE
        LET isCorrect == AbiDecodeBool(cleartexts) IN
        /\ IF isCorrect
           THEN /\ playerStats' = [playerStats EXCEPT
                                       ![guess.player] = WonStats(@)]
                /\ dailyWinners' =
                       (WinnerDay :> Append(WinnersAt(WinnerDay), guess.player))
                           @@ dailyWinners
           ELSE UNCHANGED <<playerStats, dailyWinners>>
        /\ emitted' = << <<"GuessEvaluated", guessId, guess.player, isCorrect>> >>
        /\ UNCHANGED <<appVars, now, currentAnswer, guesses, guessCount,
                       requestToGuessId, decryptionRequests>>

\* the requestIds a caller tries: the issued ones and two never issued
RequestInputs == 0 .. NextRequestId

HandleEvaluationResult ==
    /\ Ops < MaxOps
    /\ \E requestId \in RequestInputs, cleartexts \in Payloads,
          proofValid \in BOOLEAN :
           handleEvaluationResult(requestId, cleartexts, proofValid)

Next ==
    \/ Tick
    \/ SetDailyAnswer
    \/ SubmitGuess
    \/ EvaluateGuess
    \/ HandleEvaluationResult

Spec == Init /\ [][Next]_vars

\* ---------------------------------------------------------------------------
\* Second specification, for the comparison of evaluateGuess: it starts in
\* the states reached by setDailyAnswer(a) followed by A's submitGuess(g),
\* for every pair of words a, g over the alphabet, and then evaluates and
\* resolves.
InitWords ==
    /\ now = OneDay
    /\ \E a \in AllWords : currentAnswer = [letters |-> a, day |-> DayOf(OneDay)]
    /\ \E g \in AllWords :
           guesses = 1 :> [letters |-> g, timestamp |-> OneDay, player |-> "A"]
    /\ guessCount = 1
    /\ playerStats = [a \in Addresses |->
                         IF a = "A" THEN PlayedStats(EmptyStats, DayOf(OneDay))
                         ELSE EmptyStats]
    /\ dailyWinners = <<>>
    /\ requestToGuessId = <<>>
    /\ decryptionRequests = <<>>
    /\ emitted = << <<"GuessSubmitted", 1, "A">> >>
    /\ InitApp

NextWords ==
    \/ EvaluateGuess
    \/ HandleEvaluationResult

SpecWords == InitWords /\ [][NextWords]_vars

\* ---------------------------------------------------------------------------
\* Frontend: App.tsx.  A game record is stored under the key game_<id>, the
\* list of the ids under game_keys, the scores under leaderboard.  The values
\* are modelled by what JSON.parse gives back for them; the guess, the day
\* (fixed when the App is mounted) and the display state are left out.
contractVars ==
    <<now, currentAnswer, guesses, guessCount, playerStats, dailyWinners,
      requestToGuessId, decryptionRequests, emitted>>

\* the ids of the records stored under game_<id>
GameIds == DOMAIN contractData.games

\* recordId: `${Date.now()}-${random}`, an id no record has yet; the ids
\* grow with the clock, as the timestamps of the records do
NewRecordId == Cardinality(GameIds) + 1

\* list.sort((a, b) => b.timestamp - a.timestamp): the ids of list, latest
\* first
RECURSIVE SortByTimestamp(_)
SortByTimestamp(list) ==
    IF list = <<>> THEN <<>>
    ELSE LET sorted == SortByTimestamp(SubSeq(list, 1, Len(list) - 1))
             e == list[Len(list)]
             k == Cardinality({i \in 1 .. Len(sorted) :
                                  contractData.games[sorted[i]].timestamp
                                      >= contractData.games[e].timestamp})
         IN  SubSeq(sorted, 1, k) \o <<e>> \o SubSeq(sorted, k + 1, Len(sorted))

\* the loop of loadRecords: the keys whose record is stored and is of account
RECURSIVE OwnRecords(_, _)
OwnRecords(keys, account) ==
    IF keys = <<>> THEN <<>>
    ELSE LET key == Head(keys)
             rest == OwnRecords(Tail(keys), account)
         IN  IF key \in GameIds /\ contractData.games[key].player = account
             THEN <<key>> \o rest
             ELSE rest

\* the records loadRecords sets for account: it reads game_keys, then
\* game_<key> for every key of that list
LoadedRecords(account) ==
    SortByTimestamp(OwnRecords(contractData.game_keys, account))

\* leaderboardData after the update for a correct guess of account, sorted
\* by leaderboardData.sort((a, b) => b.score - a.score)
RECURSIVE SortByScore(_)
SortByScore(list) ==
    IF list = <<>> THEN <<>>
    ELSE LET sorted == SortByScore(SubSeq(list, 1, Len(list) - 1))
             e == list[Len(list)]
             k == Cardinality({i \in 1 .. Len(sorted) :
                                  sorted[i].score >= e.score})
         IN  SubSeq(sorted, 1, k) \o <<e>> \o SubSeq(sorted, k + 1, Len(sorted))

UpdatedLeaderboard(leaderboardData, account) ==
    LET found == {i \in 1 .. Len(leaderboardData) :
                     leaderboardData[i].player = account}
        playerIndex == CHOOSE i \in found : \A j \in found : i <= j
    IN  SortByScore(IF found # {}
                    THEN [leaderboardData EXCEPT ![playerIndex].score = @ + 1]
                    ELSE Append(leaderboardData,
                                [player |-> account, score |-> 1]))

\* the guards of submitGuess and of the submit button: a wallet is connected
\* and the guess has 5 letters (both taken as given), no submitGuess of this
\* client is running (the button is disabled while playing), and
\* dailyChallenge.attempts < dailyChallenge.maxAttempts
App_SubmitGuessResult(c) ==
    IF app[c].playing THEN "disabled"
    ELSE IF app[c].attempts >= maxAttempts
    THEN "No more attempts left for today"
    ELSE "ok"

\* the records stored and about to be stored
RecordsUnderWay ==
    Cardinality(GameIds)
        + Cardinality({c \in Clients : app[c].pc = "setDataGame"})

\* submitGuess up to its first contract call: setPlaying(true)
App_submitGuess(c) ==
    IF App_SubmitGuessResult(c) # "ok"
    THEN UNCHANGED vars
    ELSE /\ app' = [app EXCEPT ![c].playing = TRUE, ![c].pc = "setDataGame"]
         /\ UNCHANGED <<contractVars, contractData>>

\* await contract.setData(`game_${recordId}`, recordData)
App_setDataGame(c, isCorrect) ==
    /\ app[c].pc = "setDataGame"
    /\ contractData' =
           [contractData EXCEPT
               !.games = (NewRecordId :> [player |-> c,
                                          timestamp |-> NewRecordId,
                                          isCorrect |-> isCorrect]) @@ @]
    /\ app' = [app EXCEPT ![c].recordId = NewRecordId,
                          ![c].isCorrect = isCorrect,
                          ![c].pc = "getDataKeys"]
    /\ UNCHANGED contractVars

\* keys = JSON.parse(await contract.getData("game_keys"))
App_getDataKeys(c) ==
    /\ app[c].pc = "getDataKeys"
    /\ app' = [app EXCEPT ![c].keys = contractData.game_keys,
                          ![c].pc = "setDataKeys"]
    /\ UNCHANGED <<contractVars, contractData>>

\* keys.push(recordId);
\* await contract.setData("game_keys", keys)
App_setDataKeys(c) ==
    /\ app[c].pc = "setDataKeys"
    /\ contractData' =
           [contractData EXCEPT
               !.game_keys = Append(app[c].keys, app[c].recordId)]
    /\ app' = [app EXCEPT ![c].pc = IF app[c].isCorrect
                                    THEN "getDataLeaderboard"
                                    ELSE "loadRecords"]
    /\ UNCHANGED contractVars

\* leaderboardData = JSON.parse(await contract.getData("leaderboard"))
App_getDataLeaderboard(c) ==
    /\ app[c].pc = "getDataLeaderboard"
    /\ app' = [app EXCEPT ![c].leaderboardData = contractData.leaderboard,
                          ![c].pc = "setDataLeaderboard"]
    /\ UNCHANGED <<contractVars, contractData>>

\* await contract.setData("leaderboard", leaderboardData)
App_setDataLeaderboard(c) ==
    /\ app[c].pc = "setDataLeaderboard"
    /\ contractData' =
           [contractData EXCEPT
               !.leaderboard = UpdatedLeaderboard(app[c].leaderboardData, c)]
    /\ app' = [app EXCEPT ![c].pc = "loadRecords"]
    /\ UNCHANGED contractVars

\* setDailyChallenge(attempts + 1); await loadRecords(); finally
\* setPlaying(false).  The locals of submitGuess go out of scope.
App_loadRecords(c) ==
    /\ app[c].pc = "loadRecords"
    /\ app' = [app EXCEPT ![c] = [IdleClient EXCEPT
                                     !.attempts = app[c].attempts + 1,
                                     !.records = LoadedRecords(c)]]
    /\ UNCHANGED <<contractVars, contractData>>

\* a contract call throws (the user rejects the transaction, the node fails):
\* catch, then finally setPlaying(false); the attempt is not counted
App_catch(c) ==
    /\ app[c].pc \in {"setDataGame", "getDataKeys", "setDataKeys",
                      "getDataLeaderboard", "setDataLeaderboard"}
    /\ app' = [app EXCEPT ![c] = [IdleClient EXCEPT
                                     !.attempts = app[c].attempts,
                                     !.records = app[c].records]]
    /\ UNCHANGED <<contractVars, contractData>>

App_SubmitGuess ==
    /\ RecordsUnderWay < MaxRecords
    /\ \E c \in Clients : App_submitGuess(c)

App_SetDataGame == \E c \in Clients, isCorrect \in BOOLEAN : App_setDataGame(c, isCorrect)
App_GetDataKeys == \E c \in Clients : App_getDataKeys(c)
App_SetDataKeys == \E c \in Clients : App_setDataKeys(c)
App_GetDataLeaderboard == \E c \in Clients : App_getDataLeaderboard(c)
App_SetDataLeaderboard == \E c \in Clients : App_setDataLeaderboard(c)
App_LoadRecords == \E c \in Clients : App_loadRecords(c)
App_Catch == \E c \in Clients : App_catch(c)

NextApp ==
    \/ App_SubmitGuess
    \/ App_SetDataGame
    \/ App_GetDataKeys
    \/ App_SetDataKeys
    \/ App_GetDataLeaderboard
    \/ App_SetDataLeaderboard
    \/ App_LoadRecords
    \/ App_Catch

\* the clients of the frontend, with the storage they share
SpecApp == Init /\ [][NextApp]_vars

\* ===========================================================================
\* Claims
\* ===========================================================================
IsStored(g) == GuessAt(g).timestamp # 0
Issued == 1 .. Len(decryptionRequests)
GuessesOf(p) == {g \in DOMAIN guesses : IsStored(g) /\ guesses[g].player = p}
RequestsOf(p) == {r \in Issued : GuessIdOf(r) \in GuessesOf(p)}

RECURSIVE Occurrences(_, _)
Occurrences(list, p) ==
    IF list = <<>> THEN 0
    ELSE (IF Head(list) = p THEN 1 ELSE 0) + Occurrences(Tail(list), p)

RECURSIVE ScoreboardEntries(_, _)
ScoreboardEntries(p, d) ==
    IF d < 0 THEN 0
    ELSE Occurrences(WinnersAt(d), p) + ScoreboardEntries(p, d - 1)

\* C1: a requestId applies its win/scoreboard effect at most once, however
\* often it is resolved: so the wins of a player, and the player's entries on
\* the scoreboard, never exceed the number of decryption requests issued for
\* that player's guesses.
C1_ResolveAppliesOnce ==
    \A p \in Players :
        /\ playerStats[p].wins <= Cardinality(RequestsOf(p))
        /\ ScoreboardEntries(p, MaxOps + 1) <= Cardinality(RequestsOf(p))

\* p has a stored guess that was submitted in the wall-clock period of now
PlayedInCurrentPeriod(p) ==
    \E g \in GuessesOf(p) : DayOf(GuessAt(g).timestamp) = DayOf(now)

\* C2: once p has submitted in the current wall-clock period, every further
\* submitGuess by p in that period is rejected with "Already played today"
\* and p's attempts stay as they are, whatever happened in between.
C2_NoSecondSubmit ==
    /\ [](\A p \in Players :
            PlayedInCurrentPeriod(p) =>
                SubmitGuessResult(p) = "Already played today")
    /\ [][playerStats' = playerStats
          \/ ~\E p \in Players, w \in Words :
                 PlayedInCurrentPeriod(p) /\ submitGuess(p, w)]_vars

\* A has played today, time has passed within the period, B has submitted
\* and an evaluation was requested in between, and A is still turned away
C2_Witness ==
    /\ PlayedInCurrentPeriod("A")
    /\ guessCount = 2 /\ GuessAt(1).player = "A" /\ GuessAt(2).player = "B"
    /\ now > GuessAt(1).timestamp
    /\ Len(decryptionRequests) >= 1
    /\ playerStats["A"].attempts = 1
    /\ SubmitGuessResult("A") = "Already played today"

\* the fields a submission writes
SubmitFields == <<guesses, guessCount,
                  [a \in Addresses |-> playerStats[a].attempts],
                  [a \in Addresses |-> playerStats[a].lastPlayedDay]>>

\* the whole effect of one submission by p
FullCommit(p) ==
    /\ guessCount' = guessCount + 1
    /\ ~IsStored(guessCount')
    /\ DOMAIN guesses' = DOMAIN guesses \cup {guessCount'}
    /\ guesses'[guessCount'].player = p
    /\ guesses'[guessCount'].timestamp = now
    /\ guesses'[guessCount'].letters \in AllWords
    /\ \A g \in DOMAIN guesses : guesses'[g] = guesses[g]
    /\ playerStats'[p].attempts = playerStats[p].attempts + 1
    /\ playerStats'[p].lastPlayedDay = DayOf(now)
    /\ playerStats'[p].wins = playerStats[p].wins
    /\ \A a \in Addresses \ {p} : playerStats'[a] = playerStats[a]
    /\ UNCHANGED <<now, currentAnswer, dailyWinners, requestToGuessId,
                   decryptionRequests>>

\* C3: submitGuess is atomic: a step either writes none of attempts,
\* lastPlayedDay, guessCount and the guess ledger, or it is one full
\* submission (attempts + 1, lastPlayedDay = the current period,
\* guessCount + 1, exactly one new Guess, nothing else changed); and in every
\* state a player's attempts equal the number of that player's stored guesses.
C3_SubmitAtomic ==
    /\ [](\A p \in Addresses :
            playerStats[p].attempts = Cardinality(GuessesOf(p)))
    /\ [][UNCHANGED SubmitFields \/ \E p \in Players : FullCommit(p)]_vars

\* B's submission has just committed after A's
C3_Witness ==
    /\ emitted = << <<"GuessSubmitted", 2, "B">> >>
    /\ playerStats["B"].attempts = 1
    /\ playerStats["B"].lastPlayedDay = DayOf(now)
    /\ SubmitGuessResult("B") = "Already played today"

\* C4: evaluateGuess(g) by a requester who is not the player of the stored
\* guess g is rejected with "Not your guess" and records no decryption
\* request: requestToGuessId and the requests in flight are unchanged.
C4_OnlySubmitterEvaluates ==
    /\ [](\A s \in Players, g \in GuessIds :
            (IsStored(g) /\ GuessAt(g).player # s) =>
                EvaluateGuessResult(s, g) = "Not your guess")
    /\ [][\A s \in Players, g \in GuessInputs :
            (IsStored(g) /\ GuessAt(g).player # s /\ evaluateGuess(s, g)) =>
                UNCHANGED <<requestToGuessId, decryptionRequests>>]_vars

\* A's guess is stored and evaluated by A, and B is turned away from it
C4_Witness ==
    /\ IsStored(1) /\ GuessAt(1).player = "A"
    /\ IsStored(2) /\ GuessAt(2).player = "B"
    /\ EvaluateGuessResult("B", 1) = "Not your guess"
    /\ EvaluateGuessResult("A", 1) = "ok"
    /\ Len(decryptionRequests) = 1 /\ GuessIdOf(1) = 1

\* C5: handleEvaluationResult with a requestId that evaluateGuess never
\* returned is rejected: it changes no wins and no scoreboard list and emits
\* nothing, also when the attestation verifies and the payload decodes.
C5_UnknownRequestRejected ==
    [][\A r \in RequestInputs \ Issued, c \in Payloads :
          handleEvaluationResult(r, c, TRUE) =>
              UNCHANGED <<playerStats, dailyWinners, emitted>>]_vars

\* C6: when the attestation does not verify, handleEvaluationResult mutates
\* nothing: wins, scoreboard lists, the guess ledger and the request map are
\* unchanged and no event is emitted.
C6_FailClosed ==
    [][\A r \in RequestInputs, c \in Payloads :
          handleEvaluationResult(r, c, FALSE) => UNCHANGED vars]_vars

\* a true flag is awaiting its resolution, a resolution of it with an
\* attestation that does not verify is turned away, and nobody has won
C6_Witness ==
    /\ \E r \in Issued :
          /\ decryptionRequests[r]
          /\ HandleEvaluationResultResult(r, <<1>>, FALSE) = "Invalid signatures"
          /\ HandleEvaluationResultResult(r, <<1>>, TRUE) = "ok"
    /\ \A a \in Addresses : playerStats[a].wins = 0
    /\ TotalWinners = 0

\* the state of the end-to-end scenario before the oracle answers: the answer
\* of period P is published, A has submitted guess 1 in P and has requested
\* its evaluation as request 1, and nothing else has happened
ScenarioBeforeResolve ==
    /\ currentAnswer.day = DayOf(now)
    /\ guessCount = 1 /\ GuessAt(1).player = "A"
    /\ DayOf(GuessAt(1).timestamp) = DayOf(now)
    /\ Len(decryptionRequests) = 1 /\ GuessIdOf(1) = 1
    /\ TotalWinners = 0
    /\ \A a \in Addresses : playerStats[a].wins = 0

\* C7: a successful resolution with result true of an issued requestId that
\* maps to guess g adds exactly 1 to the wins of g's player and appends that
\* player to the end of the scoreboard list of getCurrentDay(); attempts,
\* the other players and the other lists are unchanged.  After publish,
\* A submits, A evaluates, resolve true: getPlayerStats(A) = (1, 1) and A is
\* in getDailyWinners(P).
C7_ResolveTrue ==
    [][\A r \in Issued :
          handleEvaluationResult(r, <<1>>, TRUE) =>
              LET p == GuessAt(GuessIdOf(r)).player
                  P == currentAnswer.day
              IN  /\ playerStats'[p] =
                         [playerStats[p] EXCEPT !.wins = playerStats[p].wins + 1]
                  /\ \A a \in Addresses \ {p} : playerStats'[a] = playerStats[a]
                  /\ WinnersAt(P)' = Append(WinnersAt(P), p)
                  /\ \A d \in Days \ {P} : WinnersAt(d)' = WinnersAt(d)
                  /\ (ScenarioBeforeResolve =>
                         /\ playerStats'["A"].wins = 1
                         /\ playerStats'["A"].attempts = 1
                         /\ Occurrences(WinnersAt(DayOf(now))', "A") = 1)]_vars

\* the scenario has run to its end with result true
C7_Witness ==
    /\ emitted = << <<"GuessEvaluated", 1, "A", TRUE>> >>
    /\ guessCount = 1 /\ Len(decryptionRequests) = 1
    /\ playerStats["A"].wins = 1 /\ playerStats["A"].attempts = 1
    /\ WinnersAt(DayOf(GuessAt(1).timestamp)) = <<"A">>

\* C8: a successful resolution with result false changes no wins and no
\* scoreboard list.  After publish, A submits, A evaluates, resolve false:
\* getPlayerStats(A) = (0, 1) and A is not in getDailyWinners(P).
C8_ResolveFalse ==
    [][\A r \in RequestInputs :
          handleEvaluationResult(r, <<0>>, TRUE) =>
              /\ UNCHANGED <<playerStats, dailyWinners>>
              /\ (ScenarioBeforeResolve /\ r = 1 =>
                     /\ playerStats'["A"].wins = 0
                     /\ playerStats'["A"].attempts = 1
                     /\ Occurrences(WinnersAt(DayOf(now))', "A") = 0)]_vars

\* the scenario has run to its end with result false
C8_Witness ==
    /\ emitted = << <<"GuessEvaluated", 1, "A", FALSE>> >>
    /\ guessCount = 1 /\ Len(decryptionRequests) = 1
    /\ playerStats["A"].wins = 0 /\ playerStats["A"].attempts = 1
    /\ TotalWinners = 0

WinsChanged == \E a \in Addresses : playerStats'[a].wins # playerStats[a].wins

\* C9: evaluateGuess, successful or not, leaves every PlayerState, every
\* scoreboard list, the guess ledger, guessCount and the answer unchanged; in
\* every run wins and scoreboard lists change only in steps of
\* handleEvaluationResult.
C9_EvaluateHasNoSideEffect ==
    /\ [][UNCHANGED <<playerStats, dailyWinners, guesses, guessCount,
                       currentAnswer>>
          \/ ~\E s \in Players, g \in GuessInputs : evaluateGuess(s, g)]_vars
    /\ [][(WinsChanged \/ dailyWinners' # dailyWinners) =>
            \E r \in RequestInputs, c \in Payloads :
                handleEvaluationResult(r, c, TRUE)]_vars

\* a matching guess has been evaluated and not yet resolved: its player has
\* no win
C9_Witness ==
    /\ emitted = <<>>
    /\ \E r \in Issued :
          /\ decryptionRequests[r]
          /\ playerStats[GuessAt(GuessIdOf(r)).player].wins = 0
    /\ TotalWinners = 0

\* guess and answer agree letter for letter
SameWord(guessLetters, answerLetters) ==
    \A i \in 1 .. WordLen : guessLetters[i] = answerLetters[i]

\* the cleartext an honest oracle returns for request r
HonestPayload(r) == IF decryptionRequests[r] THEN <<1>> ELSE <<0>>

\* C10 (under SpecWords, where the answer stays as published): the flag sent
\* for decryption is true exactly if the guess equals the answer in all
\* WordLen positions; and when the oracle resolves a request with its true
\* decryption, a player gains a win only if the guess equals the answer.
C10_FullWordMatch ==
    /\ [](\A r \in Issued :
            decryptionRequests[r] =
                SameWord(GuessAt(GuessIdOf(r)).letters, currentAnswer.letters))
    /\ [][\A r \in Issued :
            (handleEvaluationResult(r, HonestPayload(r), TRUE) /\ WinsChanged) =>
                SameWord(GuessAt(GuessIdOf(r)).letters,
                         currentAnswer.letters)]_vars

\* a guess that is not the all-zero word matched its answer and won, honestly
C10_Witness ==
    /\ GuessAt(1).letters # ZeroWord
    /\ GuessAt(1).letters = currentAnswer.letters
    /\ Len(decryptionRequests) = 1 /\ decryptionRequests[1]
    /\ emitted = << <<"GuessEvaluated", 1, "A", TRUE>> >>
    /\ playerStats["A"].wins = 1

\* C11: the flag an evaluateGuess call sends for decryption compares the guess
\* with the answer that is active when evaluateGuess is called, also for a
\* guess of an earlier day whose answer has been replaced since; the flag of a
\* request is fixed from then on, whatever setDailyAnswer or the oracle do
\* later.
C11_ComparedAtEvaluation ==
    [][\/ decryptionRequests' = decryptionRequests
       \/ /\ Len(decryptionRequests') = Len(decryptionRequests) + 1
          /\ \A r \in Issued : decryptionRequests'[r] = decryptionRequests[r]
          /\ requestToGuessId'[NextRequestId] \in DOMAIN guesses
          /\ decryptionRequests'[NextRequestId] =
                 SameWord(guesses[requestToGuessId'[NextRequestId]].letters,
                          currentAnswer.letters)]_vars

\* guess 1 was submitted the day before the active answer was published and
\* was evaluated twice, the second time just now against the replaced answer:
\* the two flags differ
C11_Witness ==
    /\ IsStored(1)
    /\ DayOf(GuessAt(1).timestamp) + 1 = currentAnswer.day
    /\ currentAnswer.day = DayOf(now)
    /\ Len(decryptionRequests) = 2
    /\ GuessIdOf(1) = 1 /\ GuessIdOf(2) = 1
    /\ decryptionRequests[1] # decryptionRequests[2]
    /\ decryptionRequests[2] = SameWord(GuessAt(1).letters, currentAnswer.letters)
    /\ emitted = <<>>

\* C12: guess ids are 1-based, sequential and gap-free. In every state the
\* stored guesses are exactly those with the ids 1 .. guessCount; a step that
\* stores a guess stores one guess, under the id guessCount + 1, announces
\* that id and leaves the guesses stored before as they were; a submitGuess
\* call that reverts leaves guessCount and the stored guesses alone.
C12_SequentialIds ==
    /\ [](/\ DOMAIN guesses = 1 .. guessCount
          /\ \A g \in DOMAIN guesses : IsStored(g)
          /\ \A g, h \in DOMAIN guesses :
                 g < h => guesses[g].timestamp <= guesses[h].timestamp)
    /\ [][\/ UNCHANGED <<guesses, guessCount>>
          \/ /\ guessCount' = guessCount + 1
             /\ DOMAIN guesses' = DOMAIN guesses \cup {guessCount + 1}
             /\ \A g \in DOMAIN guesses : guesses'[g] = guesses[g]
             /\ emitted' = << <<"GuessSubmitted", guessCount + 1,
                                guesses'[guessCount + 1].player>> >>]_vars
    /\ [][\/ UNCHANGED <<guesses, guessCount>>
          \/ ~\E p \in Players, w \in Words :
                 SubmitGuessResult(p) # "ok" /\ submitGuess(p, w)]_vars

\* the third successful submission got id 3, and a further submission of the
\* same player would now be rejected
C12_Witness ==
    /\ guessCount = 3
    /\ emitted = << <<"GuessSubmitted", 3, "A">> >>
    /\ GuessAt(1).player = "A" /\ GuessAt(2).player = "B"
    /\ GuessAt(3).player = "A"
    /\ DayOf(GuessAt(1).timestamp) < DayOf(GuessAt(3).timestamp)
    /\ SubmitGuessResult("A") = "Already played today"

\* the outcome the preconditions (a) an answer exists, (b) the wall-clock day
\* is the day of the answer, (c) the caller last played before today, taken
\* in this order, prescribe for a submission of p
PrescribedSubmitOutcome(p) ==
    IF currentAnswer.day = 0 THEN "Answer not set"
    ELSE IF DayOf(now) # currentAnswer.day THEN "Not current day"
    ELSE IF playerStats[p].lastPlayedDay >= DayOf(now)
    THEN "Already played today"
    ELSE "ok"

\* the answer is of a day the wall clock has left
AnswerStale == currentAnswer.day # 0 /\ DayOf(now) > currentAnswer.day

\* C13: submitGuess succeeds exactly if (a), (b) and (c) hold, and otherwise
\* reverts with the reason of the first precondition violated, in the order
\* (a), (b), (c): a call with the three preconditions stores the guess of the
\* caller, any other call changes nothing. The day of the answer is never
\* ahead of the wall clock; once the wall clock has left the day of the answer
\* every submission reverts with "Not current day", and this only ends with a
\* setDailyAnswer call.
C13_SubmitPreconditions ==
    /\ [](/\ \A p \in Players : SubmitGuessResult(p) = PrescribedSubmitOutcome(p)
          /\ currentAnswer.day <= DayOf(now)
          /\ AnswerStale =>
                 \A p \in Players : SubmitGuessResult(p) = "Not current day")
    /\ [][\A p \in Players, w \in Words :
            submitGuess(p, w) =>
                IF PrescribedSubmitOutcome(p) = "ok"
                THEN /\ guessCount' = guessCount + 1
                     /\ guesses'[guessCount'].player = p
                ELSE UNCHANGED vars]_vars
    /\ [][(AnswerStale /\ ~AnswerStale') =>
            /\ currentAnswer'.day = DayOf(now)
            /\ emitted' = << <<"NewDailyAnswer", DayOf(now)>> >>]_vars

\* the wall clock has left the day of the answer: A, who played that day, and
\* B, who did not, are both turned away with "Not current day"
C13_Witness ==
    /\ AnswerStale
    /\ guessCount = 1 /\ GuessAt(1).player = "A"
    /\ playerStats["A"].lastPlayedDay = currentAnswer.day
    /\ playerStats["B"].lastPlayedDay = 0
    /\ SubmitGuessResult("A") = "Not current day"
    /\ SubmitGuessResult("B") = "Not current day"

\* C14: while an answer exists, evaluateGuess called by any player with a
\* guessId under which no guess is stored (0, or above guessCount) reverts
\* with "Invalid guess" and records no decryption request.
C14_UnknownGuessInvalid ==
    /\ [](AnswerExists =>
            \A s \in Players, g \in GuessInputs :
                ~IsStored(g) => EvaluateGuessResult(s, g) = "Invalid guess")
    /\ [][\A s \in Players, g \in GuessInputs :
            (AnswerExists /\ ~IsStored(g) /\ evaluateGuess(s, g)) =>
                UNCHANGED <<requestToGuessId, decryptionRequests>>]_vars

\* the events of the last transaction include a GuessEvaluated
EmitsGuessEvaluated(events) ==
    \E i \in 1 .. Len(events) : events[i][1] = "GuessEvaluated"

\* a step that may be one of handleEvaluationResult: it changes playerStats,
\* dailyWinners or the events, and nothing of what the function never writes
MayBeResolve ==
    /\ UNCHANGED <<now, currentAnswer, guesses, guessCount, requestToGuessId,
                   decryptionRequests>>
    /\ ~UNCHANGED <<playerStats, dailyWinners, emitted>>

\* C15: a handleEvaluationResult call that does not revert emits one event
\* and no more, GuessEvaluated(guessId, player, isCorrect), with the guessId
\* recorded for the requestId, the player of that guess and the decoded
\* result, be it true or false; setDailyAnswer, submitGuess and evaluateGuess
\* never emit GuessEvaluated.
C15_ResolveEmitsOnce ==
    /\ [][MayBeResolve =>
            \A r \in RequestInputs, c \in Payloads :
                (HandleEvaluationResultResult(r, c, TRUE) = "ok"
                    /\ handleEvaluationResult(r, c, TRUE)) =>
                    emitted' = << <<"GuessEvaluated", GuessIdOf(r),
                                    GuessAt(GuessIdOf(r)).player,
                                    c = <<1>> >> >>]_vars
    /\ [][\/ UNCHANGED vars
          \/ ~EmitsGuessEvaluated(emitted')
          \/ ~\/ \E w \in Words : setDailyAnswer(w)
              \/ \E p \in Players, w \in Words : submitGuess(p, w)
              \/ \E s \in Players, g \in GuessInputs : evaluateGuess(s, g)]_vars

\* the request for B's guess 2 was resolved with false: one event, with the
\* guess and the player of that request
C15_Witness ==
    /\ guessCount = 2 /\ GuessAt(2).player = "B"
    /\ Len(decryptionRequests) = 1 /\ GuessIdOf(1) = 2
    /\ emitted = << <<"GuessEvaluated", 2, "B", FALSE>> >>
    /\ playerStats["B"].wins = 0

\* playerStats after request r is resolved with the result isCorrect, as the
\* claim has it: one more win for the player of the guess r was issued for
StatsAfterResolve(stats, r, isCorrect) ==
    IF isCorrect
    THEN [stats EXCEPT ![guesses[requestToGuessId[r]].player].wins = @ + 1]
    ELSE stats

Results == {<<0>>, <<1>>}

\* C17: requests are tracked one by one under their requestId. Any issued
\* request can be resolved in any state, whatever else is pending; resolving
\* request r changes the stats of no one but the player of the guess r was
\* issued for, adds no one else to a winners list, and leaves the guesses and
\* the recorded requests as they are; and resolving two requests in one order
\* or the other gives every player the same wins.
C17_IndependentResolution ==
    /\ [](\A r \in Issued :
            /\ requestToGuessId[r] \in DOMAIN guesses
            /\ \A c \in Results : HandleEvaluationResultResult(r, c, TRUE) = "ok")
    /\ [][MayBeResolve =>
            \A r \in Issued, c \in Results :
                handleEvaluationResult(r, c, TRUE) =>
                    /\ playerStats' = StatsAfterResolve(playerStats, r, c = <<1>>)
                    /\ \A d \in Days :
                           WinnersAt(d)' \in
                               {WinnersAt(d),
                                Append(WinnersAt(d),
                                       guesses[requestToGuessId[r]].player)}
                    /\ UNCHANGED <<guesses, requestToGuessId,
                                   decryptionRequests>>]_vars
    /\ [](\A r1, r2 \in Issued, c1, c2 \in Results :
            StatsAfterResolve(StatsAfterResolve(playerStats, r1, c1 = <<1>>),
                              r2, c2 = <<1>>)
            = StatsAfterResolve(StatsAfterResolve(playerStats, r2, c2 = <<1>>),
                                r1, c1 = <<1>>))

\* the requests of A's guess 1 and B's guess 2 were both pending; the later
\* one was resolved first, with true, and only B has a win
C17_Witness ==
    /\ Len(decryptionRequests) = 2
    /\ GuessIdOf(1) = 1 /\ GuessAt(1).player = "A"
    /\ GuessIdOf(2) = 2 /\ GuessAt(2).player = "B"
    /\ emitted = << <<"GuessEvaluated", 2, "B", TRUE>> >>
    /\ playerStats["B"].wins = 1
    /\ playerStats["A"].wins = 0
    /\ WinnersAt(currentAnswer.day) = <<"B">>

\* C18: the answer of a day is unique. Once an answer has been published, a
\* step after which the day of the answer is still the same leaves the word
\* of the answer as it was.
C18_AnswerUniquePerDay ==
    [][(AnswerExists /\ currentAnswer'.day = currentAnswer.day) =>
          currentAnswer'.letters = currentAnswer.letters]_vars

\* C19: setDailyAnswer(w) makes w the word of the answer and the wall-clock
\* day (the timestamp divided by one day) its day, emits NewDailyAnswer(day)
\* and nothing else, and leaves the guesses, guessCount, every player's stats,
\* every winners list and every decryption request as they were; and no other
\* step changes the answer.
C19_SetDailyAnswerEffect ==
    /\ [][\A w \in Words :
            setDailyAnswer(w) =>
                /\ currentAnswer'.letters = w
                /\ currentAnswer'.day = now \div OneDay
                /\ emitted' = << <<"NewDailyAnswer", now \div OneDay>> >>
                /\ UNCHANGED <<guesses, guessCount, playerStats, dailyWinners,
                               requestToGuessId, decryptionRequests>>]_vars
    /\ [][currentAnswer' = currentAnswer
          \/ /\ \E w \in Words : setDailyAnswer(w)
             /\ currentAnswer'.day = now \div OneDay]_vars

\* the answer of day 1 was just replaced on day 2: the guess, the request,
\* the stats and the winners list of day 1 are all still there
C19_Witness ==
    /\ emitted = << <<"NewDailyAnswer", 2>> >>
    /\ currentAnswer.day = 2 /\ DayOf(now) = 2
    /\ guessCount = 1 /\ DayOf(GuessAt(1).timestamp) = 1
    /\ Len(decryptionRequests) = 1 /\ GuessIdOf(1) = 1
    /\ playerStats["A"] = [wins |-> 1, attempts |-> 1, lastPlayedDay |-> 1]
    /\ WinnersAt(1) = <<"A">>

\* list s is an initial part of list t
IsPrefix(s, t) ==
    /\ Len(s) <= Len(t)
    /\ \A i \in 1 .. Len(s) : s[i] = t[i]

\* C20: the winners lists are append-only: over every step, for every day,
\* the list getDailyWinners(day) returned before the step is an initial part
\* of the list it returns after the step.
C20_ScoreboardAppendOnly ==
    [][\/ dailyWinners' = dailyWinners
       \/ \A d \in Days : IsPrefix(WinnersAt(d), WinnersAt(d)')]_vars

\* guess 1 was evaluated twice and both requests were resolved with true:
\* the second entry was appended behind the first
C20_Witness ==
    /\ guessCount = 1 /\ GuessAt(1).player = "A"
    /\ Len(decryptionRequests) = 2
    /\ GuessIdOf(1) = 1 /\ GuessIdOf(2) = 1
    /\ WinnersAt(currentAnswer.day) = <<"A", "A">>
    /\ emitted = << <<"GuessEvaluated", 1, "A", TRUE>> >>

\* C21: a stored guess is immutable: over every step, every guess stored
\* before the step is stored after it under the same id, with the same
\* letters, timestamp and player.
C21_GuessImmutable ==
    [][\/ guesses' = guesses
       \/ \A g \in DOMAIN guesses :
              /\ g \in DOMAIN guesses'
              /\ guesses'[g].letters = guesses[g].letters
              /\ guesses'[g].timestamp = guesses[g].timestamp
              /\ guesses'[g].player = guesses[g].player]_vars

\* A's guess 1 of day 1 is as submitted after the answer was replaced on
\* day 2, B submitted guess 2, and guess 1 was evaluated and resolved
C21_Witness ==
    /\ guessCount = 2
    /\ GuessAt(1).player = "A" /\ DayOf(GuessAt(1).timestamp) = 1
    /\ GuessAt(2).player = "B" /\ DayOf(GuessAt(2).timestamp) = 2
    /\ currentAnswer.day = 2
    /\ Len(decryptionRequests) = 1 /\ GuessIdOf(1) = 1
    /\ emitted = << <<"GuessEvaluated", 1, "A", TRUE>> >>

\* C22: requestIds are never reused and a recorded request is never
\* overwritten. In every state the recorded requestIds are exactly the ids of
\* the requests sent to the oracle; a step that records a request records one,
\* under an id not recorded before, for a stored guess; and every entry of
\* requestToGuessId recorded before a step is the same after it.
C22_RequestIdsFresh ==
    /\ [](DOMAIN requestToGuessId = Issued)
    /\ [][\/ requestToGuessId' = requestToGuessId
          \/ /\ \A r \in DOMAIN requestToGuessId :
                    /\ r \in DOMAIN requestToGuessId'
                    /\ requestToGuessId'[r] = requestToGuessId[r]
             /\ \E r \in RequestIds \ DOMAIN requestToGuessId :
                    /\ DOMAIN requestToGuessId' = DOMAIN requestToGuessId \cup {r}
                    /\ requestToGuessId'[r] \in DOMAIN guesses
                    /\ Len(decryptionRequests') = Len(decryptionRequests) + 1]_vars

\* guess 1 was evaluated twice and guess 2 once: three requests, three ids
C22_Witness ==
    /\ guessCount = 2
    /\ Len(decryptionRequests) = 3
    /\ GuessIdOf(1) = 1 /\ GuessIdOf(2) = 1 /\ GuessIdOf(3) = 2
    /\ emitted = <<>>

\* C24: no player has more wins than attempts. A player whose wins do not
\* exceed the number of requests issued for that player's guesses (every
\* requestId resolved at most once) has at most as many wins as attempts.
C24_WinsAtMostAttempts ==
    \A p \in Players :
        playerStats[p].wins <= Cardinality(RequestsOf(p)) =>
            playerStats[p].wins <= playerStats[p].attempts

\* C25: whoever is appended to the winners list of a day won with a guess
\* submitted that day: when the resolution of an issued request appends to
\* the list of day d, the timestamp of the resolved guess lies in day d.
C25_WinnerSubmittedThatDay ==
    [][MayBeResolve =>
          \A r \in Issued :
              handleEvaluationResult(r, <<1>>, TRUE) =>
                  \A d \in Days :
                      WinnersAt(d)' # WinnersAt(d) =>
                          DayOf(GuessAt(GuessIdOf(r)).timestamp) = d]_vars

\* the attempts of the players of set S, added up
RECURSIVE SumAttempts(_)
SumAttempts(S) ==
    IF S = {} THEN 0
    ELSE LET a == CHOOSE x \in S : TRUE
         IN  playerStats[a].attempts + SumAttempts(S \ {a})

\* C26: in every state guessCount is the number of stored guesses and the sum
\* of the attempts of all players; the attempts of a player are the number of
\* stored guesses of that player; and no player's lastPlayedDay is later than
\* the day of the answer.
C26_Counters ==
    /\ guessCount = Cardinality({g \in GuessIds : IsStored(g)})
    /\ guessCount = SumAttempts(Addresses)
    /\ \A p \in Addresses :
           /\ playerStats[p].attempts =
                  Cardinality({g \in GuessIds : IsStored(g) /\ GuessAt(g).player = p})
           /\ playerStats[p].lastPlayedDay <= currentAnswer.day

\* three guesses over two days: A played on both, B on the first only, whose
\* lastPlayedDay is now behind the day of the answer
C26_Witness ==
    /\ guessCount = 3
    /\ playerStats["A"].attempts = 2 /\ playerStats["B"].attempts = 1
    /\ playerStats["A"].lastPlayedDay = 2 /\ playerStats["B"].lastPlayedDay = 1
    /\ currentAnswer.day = 2
    /\ Len(decryptionRequests) = 1

\* the records client c has loaded show a correct guess
PlayerHasWon(c) ==
    \E i \in 1 .. Len(app[c].records) :
        contractData.games[app[c].records[i]].isCorrect

\* the step stores a new game record of client c
SendsSubmission(c) ==
    \E id \in DOMAIN contractData'.games \ GameIds :
        contractData'.games[id].player = c

\* C23 (under SpecApp): a client keeps guessing only until it has solved the
\* puzzle or used up its attempts: dailyChallenge.attempts never exceeds
\* maxAttempts, and no step stores a new game record of a client whose loaded
\* records show a correct guess or whose attempts have reached maxAttempts.
C23_StopsWhenSolvedOrExhausted ==
    /\ [](\A c \in Clients : app[c].attempts <= maxAttempts)
    /\ [][\A c \in Clients :
            (PlayerHasWon(c) \/ app[c].attempts >= maxAttempts) =>
                ~SendsSubmission(c)]_vars

\* the submitGuess flows that ran to their end, one counted attempt each
CompletedFlows == app["A"].attempts + app["B"].attempts

\* C27 (under SpecApp): the record index loses no update: when no submitGuess
\* is running and every record stored is of a flow that ran to its end, every
\* stored record is among the records loadRecords loads for its player.
C27_NoLostRecord ==
    (/\ \A c \in Clients : app[c].pc = "idle"
     /\ CompletedFlows = Cardinality(GameIds)) =>
        \A id \in GameIds :
            \E i \in 1 .. Len(LoadedRecords(contractData.games[id].player)) :
                LoadedRecords(contractData.games[id].player)[i] = id

TypeOK ==
    /\ now \in Nat
    /\ currentAnswer.letters \in AllWords
    /\ currentAnswer.day \in Days
    /\ guessCount \in GuessIds
    /\ DOMAIN guesses \subseteq GuessIds
    /\ DOMAIN dailyWinners \subseteq Days
    /\ DOMAIN requestToGuessId \subseteq RequestIds
    /\ \A g \in GuessIds : GuessAt(g).player \in Addresses
    /\ \A a \in Addresses : playerStats[a].wins \in Nat
    /\ \A r \in RequestIds : GuessIdOf(r) \in GuessIds
    /\ decryptionRequests \in Seq(BOOLEAN)
    /\ Ops <= MaxOps
====
